---- MODULE Spec2Model ----
(***************************************************************************)
(* Dependency downloader (src/unnamed/part_000): extractDependencies,      *)
(* downloadDependency, tryDownload and the loop of main that drives them.  *)
(*                                                                         *)
(* Strings are sequences of chunks (<<"a", "/", "b">>), so that string     *)
(* concatenation is \o and the empty string, like undefined, is falsy.     *)
(* The library calls the program makes (vm.runInContext, JSON.parse,       *)
(* yaml.load, RegExp.exec, https.get, the fs calls) are the environment:   *)
(* a manifest carries what each parser makes of its text, a request draws  *)
(* its response from the responses a server can give.                      *)
(***************************************************************************)
EXTENDS Integers, Sequences, FiniteSets, TLC

VARIABLES
    content,        \* extractDependencies: the manifest's text, as the parsers see it
    ppc,            \* extractDependencies: position in the function
    dependencies,   \* extractDependencies: the local array `dependencies`
    tried,          \* the strategies extractDependencies has consulted, in order
    executed,       \* TRUE once vm.runInContext has run the manifest's text
    pat,            \* extractDependencies: index into regexPatterns
    lastIndex,      \* extractDependencies: matches consumed of the current global pattern
    mpc,            \* main: position in the loop over `dependencies`
    depIdx,         \* main: index of `dep` in `dependencies`
    downloaded,     \* main: the counter `downloaded`
    report,         \* main: what was logged for each dependency handed to downloadDependency
    dpc,            \* downloadDependency: "idle", "vendor" (line 262) or "loop" (line 296)
    urlIdx,         \* downloadDependency: index into `urls` of the URL being tried
    attempts,       \* the URLs downloadDependency passed to tryDownload for `dep`, in order
    promise,        \* the promise downloadDependency awaits
    chains,         \* tryDownload: the requests in flight, one per call not yet finished
    files,          \* the output directory: file name -> file
    timeouts,       \* socket timeouts fired so far
    resolvableAt,   \* 0, or k: the servers make the record resolvable via its k-th candidate only
    tree,           \* findManifestFiles: the entries of the directory `dir`, as the fs calls see them
    stack,          \* findManifestFiles: the calls of scanDirectory in progress, each at an entry
    manifests,      \* findManifestFiles: the local array `manifests`
    scannedFiles,   \* findManifestFiles: the local set `scannedFiles`
    spc,            \* findManifestFiles: "scan", "returned", or "threw" (an exception left it)
    run,            \* which run of the program over the same directory this is
    firstRun        \* the records extractDependencies returned in the first run

scanVars == <<tree, stack, manifests, scannedFiles, spc>>
runVars == <<run, firstRun>>
parseVars == <<content, ppc, dependencies, tried, executed, pat, lastIndex>>
fetchVars == <<mpc, depIdx, downloaded, report, dpc, urlIdx, attempts, promise,
               chains, files, timeouts, resolvableAt>>
vars == <<scanVars, runVars, parseVars, fetchVars>>

\* ------------------------------------------------------------------ bounds
MaxEntries == 2     \* entries of a version map / dependencies mapping
MaxRecords == 4     \* cap on the array `dependencies` (the block-pattern loop never ends)
MaxTimeouts == 1    \* socket timeouts that fire in one run
RedirectBudget == 2 \* a redirect budget; the model follows one redirect more
MaxHops == RedirectBudget + 1
MaxDirEntries == 2  \* entries of the directory `dir`
MaxSubEntries == 1  \* entries of a subdirectory

\* ------------------------------------------------------------------ strings
Falsy == <<>>       \* undefined or "": both are falsy wherever the program tests them

Names == {<<"a">>, <<"b", "/", "c">>}
Versions == {<<"1">>, Falsy}     \* "1", and the empty string of {"a": ""}

\* The [name, version] pairs of an object, in Object.entries order, names distinct.
Pair == Names \X Versions
VersionMaps ==
    {m \in UNION {[1..n -> Pair] : n \in 0..MaxEntries} :
        \A i, j \in DOMAIN m : i # j => m[i][1] # m[j][1]}

BaseUrls == {Falsy, <<"https://h">>, <<"//h">>, <<"h">>}
PathPrefixes == {Falsy, <<"/p">>}

\* ------------------------------------------------------------------ findManifestFiles
\* A file, as lines 116-131 see it: whether a pattern of DEPENDENCY_PATTERNS
\* matches its name, whether readFileSync returns its content or throws
\* (EACCES, a link to a directory), and whether a pattern matches the content.
FileEntries ==
    {e \in [dir : {FALSE}, denied : {FALSE}, readable : BOOLEAN, nameMatch : BOOLEAN,
            contentMatch : BOOLEAN, entries : {<<>>}] :
        ~e.readable => ~e.contentMatch}

\* A subdirectory, as lines 109-113 see it: whether its name matches
\* /(node_modules|dist|build|\.git|\.cache)/i, whether readdirSync lists it or
\* throws, and the files it holds.  The trees modelled are two levels deep.
DirEntries ==
    {e \in [dir : {TRUE}, denied : BOOLEAN, readable : BOOLEAN, nameMatch : {FALSE},
            contentMatch : {FALSE},
            entries : UNION {[1..n -> FileEntries] : n \in 0..MaxSubEntries}] :
        e.denied \/ ~e.readable => e.entries = <<>>}

Trees == UNION {[1..n -> FileEntries \cup DirEntries] : n \in 0..MaxDirEntries}

\* The entries of the directory at `path`: readdirSync(currentDir), line 99.
readdirSync(path) == IF path = <<>> THEN tree ELSE tree[path[1]].entries

\* The call of scanDirectory in progress and the entry its loop is at.
Frame == stack[Len(stack)]
AtEntry == spc = "scan" /\ Frame.i <= Len(readdirSync(Frame.path))
entry == readdirSync(Frame.path)[Frame.i]

\* path.relative(dir, fullPath), line 103: an entry is named by its positions.
relativePath == Append(Frame.path, Frame.i)

\* The end of one turn of the loop of line 101.
Continue == stack' = [stack EXCEPT ![Len(stack)].i = @ + 1]

\* Lines 121-131: the content test; a read that throws leaves contentMatch false.
ContentMatch(e) == IF e.readable THEN e.contentMatch ELSE FALSE

\* Lines 133-136.
Classified(e, fullPath) ==
    IF e.nameMatch \/ ContentMatch(e)
    THEN <<[path |-> fullPath, type |-> IF e.nameMatch THEN "filename" ELSE "content"]>>
    ELSE <<>>

\* Lines 102-107 and 114-137: a file.
ScanFile ==
    /\ AtEntry /\ ~entry.dir
    /\ scannedFiles' = scannedFiles \cup {relativePath}
    /\ manifests' = IF relativePath \in scannedFiles THEN manifests
                    ELSE manifests \o Classified(entry, relativePath)
    /\ Continue
    /\ UNCHANGED <<tree, spc, runVars, parseVars, fetchVars>>

\* Lines 102-112: a directory of the denylist is skipped.
SkipDirectory ==
    /\ AtEntry /\ entry.dir /\ entry.denied
    /\ scannedFiles' = scannedFiles \cup {relativePath}
    /\ Continue
    /\ UNCHANGED <<tree, manifests, spc, runVars, parseVars, fetchVars>>

\* Lines 102-113 and 99: any other directory is scanned by a nested call.
ScanSubdirectory ==
    /\ AtEntry /\ entry.dir /\ ~entry.denied /\ entry.readable
    /\ scannedFiles' = scannedFiles \cup {relativePath}
    /\ stack' = IF relativePath \in scannedFiles
                THEN [stack EXCEPT ![Len(stack)].i = @ + 1]
                ELSE Append(stack, [path |-> relativePath, i |-> 1])
    /\ UNCHANGED <<tree, manifests, spc, runVars, parseVars, fetchVars>>

\* Line 99 for a directory that cannot be listed: readdirSync throws, nothing
\* in findManifestFiles catches it, and the scan ends without a result.
ReaddirThrows ==
    /\ AtEntry /\ entry.dir /\ ~entry.denied /\ ~entry.readable
    /\ relativePath \notin scannedFiles
    /\ scannedFiles' = scannedFiles \cup {relativePath}
    /\ spc' = "threw"
    /\ UNCHANGED <<tree, stack, manifests, runVars, parseVars, fetchVars>>

\* The loop of line 101 is over: scanDirectory returns to the call that made
\* it (line 113), or findManifestFiles returns `manifests` (line 142).
EndOfDirectory ==
    /\ spc = "scan" /\ Frame.i > Len(readdirSync(Frame.path))
    /\ IF Len(stack) > 1
       THEN /\ stack' = [SubSeq(stack, 1, Len(stack) - 1)
                            EXCEPT ![Len(stack) - 1].i = @ + 1]
            /\ spc' = spc
       ELSE stack' = stack /\ spc' = "returned"
    /\ UNCHANGED <<tree, manifests, scannedFiles, runVars, parseVars, fetchVars>>

findManifestFiles ==
    \/ ScanFile
    \/ SkipDirectory
    \/ ScanSubdirectory
    \/ ReaddirThrows
    \/ EndOfDirectory

\* ------------------------------------------------------------------ manifests
\* The object a script of the manifest exports under `bender`.
Benders ==
    [depVersions : VersionMaps, depPathPrefixes : [Names -> PathPrefixes],
     baseUrl : BaseUrls]
NoPrefixes == [n \in Names |-> Falsy]
NoBender == [depVersions |-> <<>>, depPathPrefixes |-> NoPrefixes, baseUrl |-> Falsy]

\* What JSON.parse / yaml.load make of the text: a SyntaxError ("throw"), null
\* or undefined ("null"), a value without properties ("scalar"), or an object,
\* with or without a truthy `dependencies` mapping.
Documents ==
    {d \in [kind : {"throw", "null", "scalar", "object"}, hasDeps : BOOLEAN,
            deps : VersionMaps] :
        /\ (d.kind # "object" => ~d.hasDeps)
        /\ (~d.hasDeps => d.deps = <<>>)}
Threw == [kind |-> "throw", hasDeps |-> FALSE, deps |-> <<>>]

\* A block pattern (?:dependencies|depVersions)\s*[:=]\s*{([^}]+)} either does
\* not match the text or matches a block; the inner pattern
\* (['"]?)(\w[\w-@\/]+)\1\s*:\s*['"]([^'"]+)['"] finds these pairs in the block
\* (a name of one character and an empty version do not match it).
Blocks ==
    {b \in [match : BOOLEAN, pattern : 3..4, found : VersionMaps] :
        /\ (~b.match => b.found = <<>> /\ b.pattern = 3)
        /\ \A i \in DOMAIN b.found : Len(b.found[i][1]) >= 2 /\ b.found[i][2] # Falsy}
NoBlock == [match |-> FALSE, pattern |-> 3, found |-> <<>>]

ManifestFields ==
    [js : {"syntaxerror", "inert", "code"},   \* the text wrapped in a function, as a script
     bender : Benders,                        \* what its code can export
     json : Documents,                        \* JSON.parse(content)
     yamlLike : BOOLEAN,                      \* /^---|:/.test(content.trim())
     yaml : Documents,                        \* yaml.load(content)
     pairs : 0..1,                            \* matches of the two global pair patterns
     block : Blocks]                          \* match of a block pattern

\* JSON text.  As a statement an object with a key is a syntax error ({"a": 1}
\* is a block that starts with a string and a colon) and any other JSON value
\* is an expression that exports nothing.  A key comes with a colon; keys are
\* quoted, so no block pattern matches.  pairs = 1: the object holds a
\* "key": "string" pair.
JsonManifests ==
    {m \in [js : {"syntaxerror", "inert"}, bender : {NoBender}, json : Documents \ {Threw},
            yamlLike : BOOLEAN, yaml : Documents \ {Threw}, pairs : 0..1,
            block : {NoBlock}] :
        /\ (m.pairs = 1 => m.json.kind = "object")
        /\ (m.json.deps # <<>> => m.pairs = 1)
        /\ m.js = (IF m.json.hasDeps \/ m.pairs = 1 THEN "syntaxerror" ELSE "inert")
        /\ m.yamlLike = (m.js = "syntaxerror")
        /\ m.yaml = m.json}

\* JavaScript text: it runs in the sandbox and may export a bender object; it
\* is not JSON.  It can be written to load as YAML too (labels, plain scalars).
\* Every pattern of the regex fallback needs a colon.
CodeManifests ==
    {m \in [js : {"code"}, bender : {b \in Benders : b.baseUrl \in {Falsy, <<"//h">>}},
            json : {Threw}, yamlLike : BOOLEAN,
            yaml : {d \in Documents : Len(d.deps) <= 1}, pairs : 0..1, block : Blocks] :
        /\ (m.yaml # Threw => m.yamlLike)
        /\ (m.pairs = 1 \/ m.block.match => m.yamlLike)}

\* YAML or free text: not JSON; as a script a syntax error, or a run of labels
\* and expressions that exports nothing.
TextManifests ==
    {m \in [js : {"syntaxerror", "inert"}, bender : {NoBender}, json : {Threw},
            yamlLike : BOOLEAN, yaml : Documents, pairs : 0..1, block : Blocks] :
        /\ (m.yaml # Threw => m.yamlLike)
        /\ (m.pairs = 1 \/ m.block.match => m.yamlLike)}

Manifests == JsonManifests \cup CodeManifests \cup TextManifests

\* ------------------------------------------------------------------ records
Record(name, version, pathPrefix, baseUrl, source) ==
    [name |-> name, version |-> version, pathPrefix |-> pathPrefix,
     baseUrl |-> baseUrl, source |-> source]

\* Object.entries(bender.depVersions).forEach(...), lines 176-188.
BenderRecords(bender) ==
    [i \in DOMAIN bender.depVersions |->
        Record(bender.depVersions[i][1], bender.depVersions[i][2],
               bender.depPathPrefixes[bender.depVersions[i][1]], bender.baseUrl,
               "bender")]

\* Object.entries(data.dependencies).forEach(...), lines 199-201 and 212-214.
EntryRecords(deps, source) ==
    [i \in DOMAIN deps |-> Record(deps[i][1], deps[i][2], Falsy, Falsy, source)]

\* ------------------------------------------------------------------ extractDependencies
\* The strategy a step belongs to is consulted: recorded once, in order.
Consult(strategy) ==
    tried' = IF tried # <<>> /\ tried[Len(tried)] = strategy
             THEN tried ELSE Append(tried, strategy)

\* for (const script of scripts): after the catch of line 191, the next script,
\* and after the last one the JSON strategy.
AfterScript == IF ppc = "script1" THEN "script2" ELSE "json"

\* Lines 171-192, a script that yields no bender.depVersions: the script does
\* not compile (nothing runs), or it runs and throws, or it returns something else.
ScriptYieldsNothing ==
    /\ ppc \in {"script1", "script2"}
    /\ Consult("bender")
    /\ executed' = (executed \/ content.js # "syntaxerror")
    /\ ppc' = AfterScript
    /\ UNCHANGED <<scanVars, runVars, fetchVars, content, dependencies, pat, lastIndex>>

\* Lines 173-190: the script runs and returns an object with bender.depVersions;
\* every entry is pushed and the function returns.
ScriptReturnsBender ==
    /\ ppc \in {"script1", "script2"}
    /\ content.js = "code"
    /\ Consult("bender")
    /\ executed' = TRUE
    /\ dependencies' = dependencies \o BenderRecords(content.bender)
    /\ ppc' = "done"
    /\ UNCHANGED <<scanVars, runVars, fetchVars, content, pat, lastIndex>>

\* Lines 176-191: the object the script returned throws from one of its
\* accessors (depPathPrefixes, staticDomain) after k entries were pushed; the
\* catch of line 191 swallows it and the pushed records stay in the array.
ScriptThrowsPartWay ==
    /\ ppc \in {"script1", "script2"}
    /\ content.js = "code"
    /\ \E k \in 0..(Len(content.bender.depVersions) - 1) :
        dependencies' = dependencies \o SubSeq(BenderRecords(content.bender), 1, k)
    /\ Consult("bender")
    /\ executed' = TRUE
    /\ ppc' = AfterScript
    /\ UNCHANGED <<scanVars, runVars, fetchVars, content, pat, lastIndex>>

\* Lines 197-203 and 210-216: what the structured strategies do with a parsed
\* document.  `data.dependencies` of null or undefined throws.
DocumentThrows(data) == data.kind \in {"throw", "null"}

\* DocumentRecords with the push moved out of the forEach: the last entry alone.
DocumentRecordsLastOnly(data, source) ==
    IF data.hasDeps /\ data.deps # <<>>
    THEN <<EntryRecords(data.deps, source)[Len(data.deps)]>>
    ELSE <<>>

DocumentRecords(data, source) ==
    IF data.hasDeps THEN EntryRecords(data.deps, source) ELSE <<>>

\* Lines 196-204.
ParseJSON ==
    /\ ppc = "json"
    /\ Consult("package.json")
    /\ IF DocumentThrows(content.json)
       THEN ppc' = "yaml" /\ UNCHANGED dependencies
       ELSE /\ dependencies' = dependencies \o DocumentRecords(content.json, "package.json")
            /\ ppc' = "done"
    /\ UNCHANGED <<scanVars, runVars, fetchVars, content, executed, pat, lastIndex>>

\* Lines 207-218.
ParseYAML ==
    /\ ppc = "yaml"
    /\ IF ~content.yamlLike
       THEN ppc' = "regex" /\ UNCHANGED <<dependencies, tried>>
       ELSE /\ Consult("yaml")
            /\ IF DocumentThrows(content.yaml)
               THEN ppc' = "regex" /\ UNCHANGED dependencies
               ELSE /\ dependencies' = dependencies \o DocumentRecords(content.yaml, "yaml")
                    /\ ppc' = "done"
    /\ UNCHANGED <<scanVars, runVars, fetchVars, content, executed, pat, lastIndex>>

\* regexPatterns, lines 221-229: two global pair patterns, two block patterns
\* without the g flag.
NumPatterns == 4
IsGlobal(p) == p \in {1, 2}
\* Matches of a global pattern in the text: the quoted pairs for the first;
\* the texts modelled hold no `xVersion: "..."` key for the second.
GlobalMatches(m, p) == IF p = 1 THEN m.pairs ELSE 0

\* for (const pattern of regexPatterns): the next pattern, or the return of line 249.
NextPattern ==
    /\ lastIndex' = 0
    /\ IF pat < NumPatterns
       THEN pat' = pat + 1 /\ ppc' = "regex"
       ELSE pat' = pat /\ ppc' = "done"

\* Lines 233-246, a global pattern.  exec advances lastIndex; match[1] is the
\* name alone, never empty, so depContent is the name and the inner pattern
\* finds no pair in it: nothing is pushed.
RegexExecGlobal ==
    /\ ppc = "regex"
    /\ IsGlobal(pat)
    /\ Consult("regex")
    /\ IF lastIndex < GlobalMatches(content, pat)
       THEN lastIndex' = lastIndex + 1 /\ UNCHANGED <<pat, ppc>>
       ELSE NextPattern
    /\ UNCHANGED <<scanVars, runVars, fetchVars, content, dependencies, executed>>

\* Lines 233-246, a block pattern that does not match: exec returns null.
RegexExecNoBlock ==
    /\ ppc = "regex"
    /\ ~IsGlobal(pat)
    /\ ~(content.block.match /\ content.block.pattern = pat)
    /\ Consult("regex")
    /\ NextPattern
    /\ UNCHANGED <<scanVars, runVars, fetchVars, content, dependencies, executed>>

\* Lines 233-246, a block pattern that matches.  Without the g flag exec
\* starts at 0 every time: the same match comes back, its pairs are pushed
\* again, and the while loop is entered again.
RegexExecBlock ==
    /\ ppc = "regex"
    /\ ~IsGlobal(pat)
    /\ content.block.match /\ content.block.pattern = pat
    /\ Len(dependencies) + Len(content.block.found) <= MaxRecords
    /\ Consult("regex")
    /\ dependencies' = dependencies \o EntryRecords(content.block.found, "regex")
    /\ UNCHANGED <<scanVars, runVars, fetchVars, content, ppc, executed, pat, lastIndex>>

extractDependencies ==
    \/ ScriptYieldsNothing
    \/ ScriptReturnsBender
    \/ ScriptThrowsPartWay
    \/ ParseJSON
    \/ ParseYAML
    \/ RegexExecGlobal
    \/ RegexExecNoBlock
    \/ RegexExecBlock


\* ------------------------------------------------------------------ downloadDependency
\* dep.name.replace(/\//g, "_"), line 256.
ReplaceSlashes(name) == [i \in DOMAIN name |-> IF name[i] = "/" THEN "_" ELSE name[i]]

\* `${dep.name.replace(/\//g, "_")}@${dep.version}.js`, line 256.
Filename(dep) == ReplaceSlashes(dep.name) \o <<"@">> \o dep.version \o <<".js">>

\* Line 260.
IsVendor(dep) == dep.source = "bender" /\ dep.baseUrl # Falsy /\ dep.pathPrefix # Falsy

\* Line 261.
VendorUrl(dep) == dep.baseUrl \o dep.pathPrefix \o <<"/bundles/">> \o dep.name \o <<".js">>

\* dep.baseUrl || "https://cdn.example.com" and dep.pathPrefix || dep.name, lines 267-274.
BaseOrDefault(dep) == IF dep.baseUrl # Falsy THEN dep.baseUrl ELSE <<"https://cdn.example.com">>
PrefixOrName(dep) == IF dep.pathPrefix # Falsy THEN dep.pathPrefix ELSE dep.name

\* Lines 266-276.
cdnPatterns(dep) ==
    << BaseOrDefault(dep) \o <<"/">> \o dep.name \o <<"@">> \o dep.version
           \o <<"/dist/">> \o dep.name \o <<".js">>,
       BaseOrDefault(dep) \o <<"/">> \o dep.name \o <<"@">> \o dep.version
           \o <<"/">> \o dep.name \o <<".js">>,
       BaseOrDefault(dep) \o <<"/">> \o PrefixOrName(dep) \o <<"/">> \o dep.name \o <<".js">> >>

\* Lines 279-283.
publicCdns(dep) ==
    << <<"https://unpkg.com", "/">> \o dep.name \o <<"@">> \o dep.version,
       <<"https://cdn.jsdelivr.net", "/npm/">> \o dep.name \o <<"@">> \o dep.version,
       <<"https://bundle.run", "/">> \o dep.name \o <<"@">> \o dep.version >>

\* publicCdns.map((url) => `${url}${suffix}`), lines 288-291.
WithSuffix(dep, suffix) == [i \in 1..3 |-> publicCdns(dep)[i] \o suffix]

\* Lines 286-292.
urls(dep) ==
    cdnPatterns(dep)
        \o WithSuffix(dep, <<"/dist/">> \o dep.name \o <<".min.js">>)
        \o WithSuffix(dep, <<"/dist/">> \o dep.name \o <<".js">>)
        \o WithSuffix(dep, <<"/">> \o dep.name \o <<".js">>)
        \o WithSuffix(dep, <<"/bundle.js">>)

\* ------------------------------------------------------------------ tryDownload
\* Lines 306-311: a leading // gets https:, and new URL throws on a text
\* without a scheme.
HasScheme(url) ==
    url # <<>> /\ url[1] \in {"https://h", "https://cdn.example.com", "https://unpkg.com",
                             "https://cdn.jsdelivr.net", "https://bundle.run", "https:"}
parsedUrl(url) == IF url # <<>> /\ url[1] = "//h" THEN <<"https:">> \o url ELSE url
UrlThrows(url) == ~HasScheme(parsedUrl(url))

\* A response body, in blocks of 100 bytes: for each block, whether a script
\* token (function, var, const, let, =>, class) occurs in it.  A short script,
\* a short page without a token, and a page whose only token comes after the
\* first 100 bytes.
Bodies == {<<TRUE>>, <<FALSE>>, <<FALSE, TRUE>>}
Script == <<TRUE>>

\* fs.readFileSync(outputPath, "utf8", 0, 100), line 334: readFileSync takes
\* (path, options); the two further arguments are ignored and the whole file
\* is returned.
readFileSync(text, encoding, position, length) == text

\* /(function|var|const|let|=>|class)/.test(content), line 335.
LooksLikeScript(text) == \E i \in DOMAIN text : text[i]

NoOwner == <<0, 0>>
NoFile == [exists |-> FALSE, writer |-> NoOwner, body |-> <<>>, complete |-> FALSE]

\* The call of tryDownload that downloadDependency is awaiting.
Current == <<depIdx, Len(attempts)>>
dep == dependencies[depIdx]

\* tryDownload(url, outputPath), lines 304-313 and 344-348: new URL throws
\* inside the executor (the promise is rejected), or the request is sent.
tryDownload(url, attemptsSoFar) ==
    /\ attempts' = Append(attemptsSoFar, url)
    /\ IF UrlThrows(url)
       THEN promise' = "rejected" /\ chains' = chains
       ELSE /\ promise' = "pending"
            /\ chains' = chains \cup
                 {[owner |-> <<depIdx, Len(attemptsSoFar) + 1>>, file |-> Filename(dep),
                   hops |-> 0, phase |-> "sent", body |-> <<>>]}

\* resolve(value) of the promise of chain c: it settles the promise that
\* downloadDependency awaits when c belongs to that call and nothing settled it yet.
Resolve(c, value) ==
    promise' = IF c.owner = Current /\ promise = "pending" THEN value ELSE promise

\* I/O callbacks run only when no continuation of a settled promise is queued.
Idle == mpc # "crashed" /\ promise \in {"none", "pending"}

\* What the server asked by chain c may answer, res.statusCode and the body:
\* anything, or, when the servers are set up so that a record resolves at its
\* k-th candidate, another status than 200 for the candidates before the k-th
\* and a script for the k-th.
Answers(c) ==
    IF resolvableAt = 0 \/ c.owner[2] > resolvableAt
    THEN {"redirect", "status", "ok", "error"}
    ELSE IF c.owner[2] < resolvableAt THEN {"status"} ELSE {"ok"}
AnswerBodies(c) == IF resolvableAt = 0 \/ c.owner[2] > resolvableAt THEN Bodies ELSE {Script}

\* Lines 315-322: a 301/302/307/308 with a Location: a new call of tryDownload
\* whose promise resolves this one.  Nothing counts the hops.
FollowRedirect(c) ==
    /\ Idle /\ c.phase = "sent" /\ "redirect" \in Answers(c)
    /\ c.hops < MaxHops
    /\ chains' = (chains \ {c}) \cup {[c EXCEPT !.hops = c.hops + 1]}
    /\ UNCHANGED <<scanVars, runVars, parseVars, mpc, depIdx, downloaded, report, dpc, urlIdx, attempts,
                   promise, files, timeouts, resolvableAt>>

\* Lines 324-327: any other status than 200.
RejectStatus(c) ==
    /\ Idle /\ c.phase = "sent" /\ "status" \in Answers(c)
    /\ chains' = chains \ {c}
    /\ Resolve(c, "false")
    /\ UNCHANGED <<scanVars, runVars, parseVars, mpc, depIdx, downloaded, report, dpc, urlIdx, attempts,
                   files, timeouts, resolvableAt>>

\* Line 344: req.on("error").
NetworkError(c) ==
    /\ Idle /\ c.phase = "sent" /\ "error" \in Answers(c)
    /\ chains' = chains \ {c}
    /\ Resolve(c, "false")
    /\ UNCHANGED <<scanVars, runVars, parseVars, mpc, depIdx, downloaded, report, dpc, urlIdx, attempts,
                   files, timeouts, resolvableAt>>

\* Lines 329-330: a 200: the output file is created (or truncated) and the
\* body is piped into it.
StartStreaming(c) ==
    /\ Idle /\ c.phase = "sent" /\ "ok" \in Answers(c)
    /\ \E b \in AnswerBodies(c) :
        chains' = (chains \ {c}) \cup {[c EXCEPT !.phase = "streaming", !.body = b]}
    /\ files' = [files EXCEPT ![c.file] =
                    [exists |-> TRUE, writer |-> c.owner, body |-> <<>>, complete |-> FALSE]]
    /\ UNCHANGED <<scanVars, runVars, parseVars, mpc, depIdx, downloaded, report, dpc, urlIdx, attempts,
                   promise, timeouts, resolvableAt>>

\* What the file holds when chain c has written its last byte: its body, or,
\* when another call is streaming into the same file, possibly that one's.
Written(c) ==
    {c.body} \cup {d.body : d \in {e \in chains : e # c /\ e.phase = "streaming"
                                                  /\ e.file = c.file}}

\* Lines 331-341, file.on("finish"): the file is read back and tested; a file
\* that fails the test is deleted.
FinishFile(c) ==
    /\ Idle /\ c.phase = "streaming"
    /\ files[c.file].exists
    /\ chains' = chains \ {c}
    /\ \E text \in Written(c) :
        IF LooksLikeScript(readFileSync(text, "utf8", 0, 100))
        THEN /\ files' = [files EXCEPT ![c.file] =
                    [exists |-> TRUE, writer |-> c.owner, body |-> text, complete |-> TRUE]]
             /\ Resolve(c, "true")
        ELSE /\ files' = [files EXCEPT ![c.file] = NoFile]
             /\ Resolve(c, "false")
    /\ UNCHANGED <<scanVars, runVars, parseVars, mpc, depIdx, downloaded, report, dpc, urlIdx, attempts,
                   timeouts, resolvableAt>>

\* Line 334 when another call has deleted the file meanwhile: readFileSync
\* throws in the callback, nothing catches it, and the process ends.
FinishMissingFile(c) ==
    /\ Idle /\ c.phase = "streaming"
    /\ ~files[c.file].exists
    /\ mpc' = "crashed"
    /\ chains' = {}
    /\ UNCHANGED <<scanVars, runVars, parseVars, depIdx, downloaded, report, dpc, urlIdx, attempts,
                   promise, files, timeouts, resolvableAt>>

\* Lines 345-348, the timeout of the request in flight: it is destroyed and the
\* promise resolves false.  A file being written stays as it is.
Timeout(c) ==
    /\ Idle /\ resolvableAt = 0 /\ timeouts < MaxTimeouts
    /\ timeouts' = timeouts + 1
    /\ chains' = chains \ {c}
    /\ Resolve(c, "false")
    /\ UNCHANGED <<scanVars, runVars, parseVars, mpc, depIdx, downloaded, report, dpc, urlIdx, attempts,
                   files, resolvableAt>>

\* Lines 345-348, the timeout of a request that was answered by a redirect:
\* its socket idles, since nobody reads the response.  The timeout destroys
\* that request alone and resolves the promise false; the request made for
\* the redirect target goes on.
RedirectedTimeout(c) ==
    /\ Idle /\ resolvableAt = 0 /\ timeouts < MaxTimeouts
    /\ c.hops >= 1
    /\ c.owner = Current /\ promise = "pending"
    /\ timeouts' = timeouts + 1
    /\ promise' = "false"
    /\ UNCHANGED <<scanVars, runVars, parseVars, mpc, depIdx, downloaded, report, dpc, urlIdx, attempts,
                   chains, files, resolvableAt>>

\* Lines 315-321 when res.headers.location is not an absolute URL (a relative
\* path, say): new URL throws in the executor of the nested call, whose promise
\* is rejected; `.then(resolve)` passes no rejection handler.  Node 15 and
\* later end the process on the unhandled rejection; earlier versions print a
\* warning and the request, whose response nobody reads, idles until its timeout.
RedirectToInvalidUrl(c) ==
    /\ Idle /\ c.phase = "sent" /\ "redirect" \in Answers(c)
    /\ resolvableAt = 0
    /\ \/ mpc' = "crashed" /\ chains' = {}
       \/ mpc' = mpc /\ chains' = (chains \ {c}) \cup {[c EXCEPT !.phase = "stalled"]}
    /\ UNCHANGED <<scanVars, runVars, parseVars, depIdx, downloaded, report, dpc, urlIdx,
                   attempts, promise, files, timeouts, resolvableAt>>

\* Lines 329-330 when the stream cannot open or write the file (the directory
\* of a version that holds a "/" does not exist, the disk is full): the write
\* stream emits "error", nothing listens for it, and the process ends.
WriteStreamError(c) ==
    /\ Idle /\ c.phase = "streaming"
    /\ resolvableAt = 0
    /\ mpc' = "crashed"
    /\ chains' = {}
    /\ UNCHANGED <<scanVars, runVars, parseVars, depIdx, downloaded, report, dpc, urlIdx,
                   attempts, promise, files, timeouts, resolvableAt>>

\* ------------------------------------------------------------------ main, downloadDependency
\* console.log of lines 66 and 70; nothing is logged when downloadDependency
\* returns false.
Downloaded == "downloaded"
NotLogged == "nothing logged"
Failed(message) == "failed: " \o message

\* Lines 62-72, the end of one turn of the loop: what is logged and counted.
NextDependency(logged) ==
    /\ report' = Append(report, logged)
    /\ downloaded' = IF logged = Downloaded THEN downloaded + 1 ELSE downloaded
    /\ depIdx' = depIdx + 1
    /\ mpc' = "loop"
    /\ dpc' = "idle"
    /\ promise' = "none"

\* Lines 62-64 and 255-263: the next dependency; a bender record with baseUrl
\* and pathPrefix goes to the vendor URL.
StartVendor ==
    /\ mpc = "loop" /\ depIdx <= Len(dependencies)
    /\ IsVendor(dep)
    /\ tryDownload(VendorUrl(dep), <<>>)
    /\ mpc' = "await" /\ dpc' = "vendor" /\ urlIdx' = 0
    /\ UNCHANGED <<scanVars, runVars, parseVars, depIdx, downloaded, report, files, timeouts, resolvableAt>>

\* Lines 62-64, 255-260 and 266-296: the next dependency; any other record
\* goes to the first of `urls`.
StartUrls ==
    /\ mpc = "loop" /\ depIdx <= Len(dependencies)
    /\ ~IsVendor(dep)
    /\ tryDownload(urls(dep)[1], <<>>)
    /\ mpc' = "await" /\ dpc' = "loop" /\ urlIdx' = 1
    /\ UNCHANGED <<scanVars, runVars, parseVars, depIdx, downloaded, report, files, timeouts, resolvableAt>>

\* Line 262, return tryDownload(url, outputPath): the caller gets the
\* promise's value, true or false (lines 64-68).
VendorReturns ==
    /\ mpc = "await" /\ dpc = "vendor"
    /\ promise \in {"true", "false"}
    /\ NextDependency(IF promise = "true" THEN Downloaded ELSE NotLogged)
    /\ UNCHANGED <<scanVars, runVars, parseVars, urlIdx, attempts, chains, files, timeouts, resolvableAt>>

\* Lines 296-298 and 64-68.
LoopReturnsTrue ==
    /\ mpc = "await" /\ dpc = "loop"
    /\ promise = "true"
    /\ NextDependency(Downloaded)
    /\ UNCHANGED <<scanVars, runVars, parseVars, urlIdx, attempts, chains, files, timeouts, resolvableAt>>

\* Lines 295-299: the attempt failed and a URL is left.
TryNextUrl ==
    /\ mpc = "await" /\ dpc = "loop"
    /\ promise = "false"
    /\ urlIdx < Len(urls(dep))
    /\ urlIdx' = urlIdx + 1
    /\ tryDownload(urls(dep)[urlIdx + 1], attempts)
    /\ UNCHANGED <<scanVars, runVars, parseVars, mpc, depIdx, downloaded, report, dpc, files, timeouts,
                   resolvableAt>>

\* Lines 301 and 69-71: the last URL failed.
ThrowNoUrl ==
    /\ mpc = "await" /\ dpc = "loop"
    /\ promise = "false"
    /\ urlIdx = Len(urls(dep))
    /\ NextDependency(Failed("No valid download URL found"))
    /\ UNCHANGED <<scanVars, runVars, parseVars, urlIdx, attempts, chains, files, timeouts, resolvableAt>>

\* Lines 309-311 and 69-71: new URL threw; the rejection passes through
\* downloadDependency to the catch of main.
ThrowInvalidUrl ==
    /\ mpc = "await"
    /\ promise = "rejected"
    /\ NextDependency(Failed("Invalid URL"))
    /\ UNCHANGED <<scanVars, runVars, parseVars, urlIdx, attempts, chains, files, timeouts, resolvableAt>>

\* Lines 74-76: the loop over `dependencies` is over.
Summary ==
    /\ mpc = "loop" /\ depIdx > Len(dependencies)
    /\ mpc' = "summary"
    /\ UNCHANGED <<scanVars, runVars, parseVars, depIdx, downloaded, report, dpc, urlIdx, attempts, promise,
                   chains, files, timeouts, resolvableAt>>

\* The callbacks of the requests in flight, lines 313-348.
Redirected == \E c \in chains : FollowRedirect(c)
StatusRejected == \E c \in chains : RejectStatus(c)
RequestError == \E c \in chains : NetworkError(c)
Streaming == \E c \in chains : StartStreaming(c)
Finished == \E c \in chains : FinishFile(c)
FinishedMissing == \E c \in chains : FinishMissingFile(c)
TimedOut == \E c \in chains : Timeout(c)
RedirectedTimedOut == \E c \in chains : RedirectedTimeout(c)
RedirectedToInvalidUrl == \E c \in chains : RedirectToInvalidUrl(c)
WriteFailed == \E c \in chains : WriteStreamError(c)

\* ------------------------------------------------------------------ specifications
\* The records extractDependencies returns for a package.json with one
\* dependency, and for bender manifests: one with a base URL and a path prefix
\* for every name, one like it with the names `b/c` and `b_c`, two with a
\* prefix for the name `a` alone, one whose staticDomain has no scheme.
A1 == <<(<<"a">>), (<<"1">>)>>
BC1 == <<(<<"b", "/", "c">>), (<<"1">>)>>
B_C1 == <<(<<"b", "_", "c">>), (<<"1">>)>>
PrefixForA == [n \in Names |-> IF n = <<"a">> THEN <<"/p">> ELSE Falsy]
FetchBenders ==
    {[depVersions |-> <<BC1>>, depPathPrefixes |-> [n \in Names |-> <<"/p">>],
      baseUrl |-> <<"//h">>],
     [depVersions |-> <<BC1, B_C1>>,
      depPathPrefixes |-> [n \in Names \cup {<<"b", "_", "c">>} |-> <<"/p">>],
      baseUrl |-> <<"//h">>],
     [depVersions |-> <<A1, BC1>>, depPathPrefixes |-> PrefixForA,
      baseUrl |-> <<"https://h">>],
     [depVersions |-> <<BC1, A1>>, depPathPrefixes |-> PrefixForA,
      baseUrl |-> <<"https://h">>],
     [depVersions |-> <<A1>>, depPathPrefixes |-> NoPrefixes, baseUrl |-> <<"h">>]}
DepLists ==
    {EntryRecords(m, "package.json") :
        m \in {v \in VersionMaps : Len(v) = 1 /\ v[1][2] # Falsy}}
        \cup {BenderRecords(b) : b \in FetchBenders}

Filenames(records) == {Filename(records[i]) : i \in DOMAIN records}

\* The manifest has been read and parsed: `dependencies` is what main loops over.
Consumed ==
    [js |-> "syntaxerror", bender |-> NoBender, json |-> Threw, yamlLike |-> FALSE,
     yaml |-> Threw, pairs |-> 0, block |-> NoBlock]

\* findManifestFiles has returned one manifest, found by its content (line 32).
OneFile ==
    [dir |-> FALSE, denied |-> FALSE, readable |-> TRUE, nameMatch |-> FALSE,
     contentMatch |-> TRUE, entries |-> <<>>]
ScanReturned ==
    /\ tree = <<OneFile>>
    /\ stack = <<[path |-> <<>>, i |-> 2]>>
    /\ manifests = <<[path |-> <<1>>, type |-> "content"]>>
    /\ scannedFiles = {<<1>>}
    /\ spc = "returned"

\* The first run of the program over the directory.
FirstRun == run = 1 /\ firstRun = <<>>

FetchNotStarted ==
    /\ mpc = "loop"
    /\ depIdx = 1
    /\ downloaded = 0
    /\ report = <<>>
    /\ dpc = "idle"
    /\ urlIdx = 0
    /\ attempts = <<>>
    /\ promise = "none"
    /\ chains = {}
    /\ timeouts = 0

\* extractDependencies alone, over every manifest: line 150 has read the text.
InitParse ==
    /\ content \in Manifests
    /\ ppc = "script1"
    /\ dependencies = <<>>
    /\ tried = <<>>
    /\ executed = FALSE
    /\ pat = 1
    /\ lastIndex = 0
    /\ FetchNotStarted
    /\ files = <<>>
    /\ resolvableAt = 0
    /\ ScanReturned
    /\ FirstRun

SpecParse == InitParse /\ [][extractDependencies]_vars

\* The program is run again over the unchanged directory: the manifest has
\* the same text, and extractDependencies starts again on it (lines 148-151).
SecondRun ==
    /\ ppc = "done" /\ run = 1
    /\ run' = 2
    /\ firstRun' = dependencies
    /\ ppc' = "script1"
    /\ dependencies' = <<>>
    /\ tried' = <<>>
    /\ pat' = 1
    /\ lastIndex' = 0
    /\ UNCHANGED <<scanVars, fetchVars, content, executed>>

NextRerun ==
    \/ extractDependencies
    \/ SecondRun

SpecRerun == InitParse /\ [][NextRerun]_vars

\* findManifestFiles alone, over every tree: scanDirectory(dir) has been
\* called (line 141) and no manifest is open yet.
InitScan ==
    /\ tree \in Trees
    /\ stack = <<[path |-> <<>>, i |-> 1]>>
    /\ manifests = <<>>
    /\ scannedFiles = {}
    /\ spc = "scan"
    /\ FirstRun
    /\ content = Consumed
    /\ ppc = "done"
    /\ dependencies = <<>>
    /\ tried = <<>>
    /\ executed = FALSE
    /\ pat = 1
    /\ lastIndex = 0
    /\ FetchNotStarted
    /\ files = <<>>
    /\ resolvableAt = 0

SpecScan == InitScan /\ [][findManifestFiles]_vars

InitFetch ==
    /\ content = Consumed
    /\ ppc = "done"
    /\ dependencies \in DepLists
    /\ tried = <<>>
    /\ executed = FALSE
    /\ pat = 1
    /\ lastIndex = 0
    /\ FetchNotStarted
    /\ files = [f \in Filenames(dependencies) |-> NoFile]
    /\ resolvableAt \in 0..(Len(urls(dependencies[1])) + 1)
    /\ ScanReturned
    /\ FirstRun

NextFetch ==
    \/ StartVendor
    \/ StartUrls
    \/ VendorReturns
    \/ LoopReturnsTrue
    \/ TryNextUrl
    \/ ThrowNoUrl
    \/ ThrowInvalidUrl
    \/ Summary
    \/ Redirected
    \/ StatusRejected
    \/ RequestError
    \/ Streaming
    \/ Finished
    \/ FinishedMissing
    \/ TimedOut
    \/ RedirectedTimedOut
    \/ RedirectedToInvalidUrl
    \/ WriteFailed

SpecFetch == InitFetch /\ [][NextFetch]_vars

\* ------------------------------------------------------------------ claims, extractDependencies
StrategyOrder == <<"bender", "package.json", "yaml", "regex">>
Rank(strategy) == CHOOSE i \in DOMAIN StrategyOrder : StrategyOrder[i] = strategy
Returned == ppc = "done"

\* C1: the strategies are consulted in the fixed order embedded-eval, JSON,
\* YAML, regex, and a strategy that throws or yields no record never ends the
\* parse: a parse that returns no record has consulted the last strategy.
C1_NextStrategyTried ==
    /\ \A i, j \in DOMAIN tried : i < j => Rank(tried[i]) < Rank(tried[j])
    /\ (Returned /\ dependencies = <<>> => tried # <<>> /\ tried[Len(tried)] = "regex")

\* C2: the records one parse returns all carry the same source strategy, and
\* when they come from the embedded-eval strategy they are exactly one record
\* per entry of the version map.
C2_OneStrategyContributes ==
    Returned =>
        /\ \A i, j \in DOMAIN dependencies : dependencies[i].source = dependencies[j].source
        /\ ((\E i \in DOMAIN dependencies : dependencies[i].source = "bender")
                => /\ Len(dependencies) = Len(content.bender.depVersions)
                   /\ \A i \in DOMAIN dependencies :
                        /\ dependencies[i].name = content.bender.depVersions[i][1]
                        /\ dependencies[i].version = content.bender.depVersions[i][2])

\* C3: for a manifest that is a JSON object with a `dependencies` mapping, the
\* parse returns one record per key/value pair of the mapping (name the key,
\* version the value), each tagged package.json, and nothing else.
JsonWithDependencies == content.json.kind = "object" /\ content.json.hasDeps
C3_JsonDependencies ==
    Returned /\ JsonWithDependencies =>
        /\ Len(dependencies) = Len(content.json.deps)
        /\ \A i \in DOMAIN dependencies :
            /\ dependencies[i].name = content.json.deps[i][1]
            /\ dependencies[i].version = content.json.deps[i][2]
            /\ dependencies[i].source = "package.json"

\* C3, its case: a JSON object with two dependencies has been parsed.
C3_Witness ==
    /\ Returned /\ JsonWithDependencies
    /\ Len(content.json.deps) = 2
    /\ Len(dependencies) = 2
    /\ tried = <<"bender", "package.json">>

\* C4: no step of the parse runs the manifest's text as code.
C4_NeverExecutes == ~executed

\* ------------------------------------------------------------------ claims, downloadDependency
\* The dependency whose attempts `attempts` holds: the one being awaited, or
\* the one main has just finished with.
Settled == mpc \in {"loop", "summary"} /\ depIdx > 1
LastDep == IF mpc = "await" THEN dep ELSE dependencies[depIdx - 1]
IsPrefix(s, t) == Len(s) <= Len(t) /\ \A i \in DOMAIN s : s[i] = t[i]

\* candidates(record) of the design: the vendor URL when the record has one,
\* then the three generic and the twelve public-CDN URLs.
Candidates(d) == (IF IsVendor(d) THEN <<VendorUrl(d)>> ELSE <<>>) \o urls(d)

\* C5: the URLs tried for a record are its candidate sequence, in order: the
\* vendor URL when the record has one, the three generic URLs, the twelve
\* public-CDN URLs; after a failure the next candidate is tried, so a
\* resolution that ends without a download has tried them all.
C5_CandidatesInOrder ==
    /\ (mpc = "await" \/ Settled => IsPrefix(attempts, Candidates(LastDep)))
    /\ (Settled /\ report[depIdx - 1] \in {NotLogged, Failed("No valid download URL found")}
            => attempts = Candidates(LastDep))

\* The servers of the first k candidates of record d can be asked.
Answerable(d, k) ==
    k \in 1..Len(Candidates(d)) /\ \A i \in 1..k : ~UrlThrows(Candidates(d)[i])

\* C6: when the first k-1 candidates of a record answer with another status
\* than 200 and the k-th answers 200 with a script, the resolution makes
\* exactly k attempts, succeeds, and leaves the file written by attempt k.
C6_ResolvedAtKth ==
    Settled /\ Answerable(LastDep, resolvableAt) =>
        /\ Len(attempts) = resolvableAt
        /\ report[depIdx - 1] = Downloaded
        /\ files[Filename(LastDep)] =
             [exists |-> TRUE, writer |-> <<depIdx - 1, resolvableAt>>, body |-> Script,
              complete |-> TRUE]

\* C7: every record handed to downloadDependency ends in an outcome that main
\* reports: it is counted as downloaded, or a failure is logged for it; when
\* every attempt resolved false the failure is "No valid download URL found".
C7_OutcomeReported ==
    \A i \in DOMAIN report :
        report[i] \in {Downloaded, Failed("No valid download URL found"),
                       Failed("Invalid URL")}

\* C8: one call of tryDownload follows at most a fixed number of redirects.
C8_RedirectsBounded == \A c \in chains : c.hops <= RedirectBudget

\* C9: every request in flight belongs to the one call of tryDownload that
\* downloadDependency is awaiting: once a call has resolved, nothing of it is
\* left that could write, test or delete the output file.
C9_OneAttemptActive ==
    \A c \in chains : mpc = "await" /\ promise = "pending" /\ c.owner = Current

\* C10: a file is accepted only if its first 100 bytes hold a script token.
C10_FirstBytesDecide ==
    \A f \in DOMAIN files : files[f].exists /\ files[f].complete => files[f].body[1]

\* ------------------------------------------------------------------ claims, the run as a whole
\* C11: no error raised while a manifest is parsed or a dependency is fetched
\* ends the run: the process never dies of an error that nothing handles.
C11_NoFatalError == mpc # "crashed"

\* The entry of the tree that a path names.
EntryAt(path) == IF Len(path) = 1 THEN tree[path[1]] ELSE tree[path[1]].entries[path[2]]
FilePaths ==
    {<<i>> : i \in {k \in DOMAIN tree : ~tree[k].dir}}
        \cup UNION {{<<i, j>> : j \in DOMAIN tree[i].entries} : i \in DOMAIN tree}

\* C12: a read error on one entry never aborts the scan, a file whose content
\* cannot be read is not among the manifests returned, and every file outside
\* the denylisted directories is classified.
C12_UnreadableExcluded ==
    /\ spc # "threw"
    /\ \A i \in DOMAIN manifests : EntryAt(manifests[i].path).readable
    /\ (spc = "returned" => FilePaths \subseteq scannedFiles)

\* Two records that differ in name or version.
Distinct(d, e) == d.name # e.name \/ d.version # e.version

\* C13: each dependency writes to its own output file: no request made for a
\* record is directed at, and no write comes to, the file that was reported
\* as downloaded for a record with another name or version.
C13_OwnOutputFile ==
    \A i \in DOMAIN report, j \in DOMAIN dependencies :
        report[i] = Downloaded /\ Distinct(dependencies[i], dependencies[j]) =>
            /\ \A c \in chains : c.owner[1] = j => c.file # Filename(dependencies[i])
            /\ files[Filename(dependencies[i])].writer[1] # j

\* C14: two runs over the same unchanged directory return the same set of
\* records for a manifest, whatever the manifest holds.
RecordSet(records) == {records[i] : i \in DOMAIN records}
C14_SameRecords == run = 2 /\ Returned => RecordSet(dependencies) = RecordSet(firstRun)

\* C15: every record extractDependencies holds has a non-empty name and a
\* non-empty version.
C15_NameAndVersion ==
    \A i \in DOMAIN dependencies :
        dependencies[i].name # Falsy /\ dependencies[i].version # Falsy

\* The records the regex fallback has pushed.
IsRegexRecord(d) == d.source = "regex"

\* C16: the loop that applies a pattern to the text finishes: a match of a
\* block pattern is consumed once, so the fallback never holds more records
\* than the block has pairs.
C16_RegexLoopEnds ==
    Len(SelectSeq(dependencies, IsRegexRecord)) <= Len(content.block.found)

\* C17: when the resolution of a record ends without success, no file written
\* by its attempts is left at its output path.
C17_NoLeftoverFile ==
    \A i \in DOMAIN report :
        report[i] # Downloaded => ~files[Filename(dependencies[i])].exists

====
